---- MODULE Spec2Model ----
(***************************************************************************)
(* Redaction / restoration pipeline of example-main.ts.                    *)
(*                                                                         *)
(* A text is a sequence of one-character strings.  The regular expressions *)
(* of the source are operators that give, for a text and a start index,    *)
(* the length of the match the JavaScript engine finds there (0: none).    *)
(***************************************************************************)
EXTENDS Integers, Sequences, FiniteSets

VARIABLES
    pc,          \* position of the running function
    text,        \* redactText: its argument
    modified,    \* redactText: let modified
    mapping,     \* redactText: const mapping / the session's captured mapping
    counters,    \* redactText: const counters
    labelIdx,    \* redactText: index of the outer for-loop over the labels
    matches,     \* redactText: matches of the current label still to visit
    seen,        \* history: every match visited by the inner loop so far
    finalOutput, \* result of unredactOnce
    buf,         \* makeStreamUnredactor: let buf
    shown,       \* concatenation of the strings the session returned so far
    raw,         \* concatenation of the fragments delivered so far
    rest,        \* the part of the stream not yet delivered
    bufSrc,      \* history: for each character of buf, its index in the
                 \* stream, or 0 when a substitution produced it
    shownSrc,    \* history: the same for each character of shown
    hasKey,      \* process.env.OPENAI_API_KEY is set
    rows,        \* main: const rows
    reqIdx,      \* main: the loop variable i, counted from 1
    nparts,      \* callLLMStream: parts the service has yielded so far
    failed,      \* history: the requests whose generation call threw
    completed,   \* history: the requests that printed their final output
                 \* (RedactSpec: the redactText calls that were restored)
    sent         \* history: the arguments of the onUserChunk calls that
                 \* callLLMStream has made for the request, in order

redactVars == <<text, modified, mapping, counters, labelIdx, matches, seen>>
sessVars == <<buf, shown, raw, rest, bufSrc, shownSrc>>
progVars == <<hasKey, rows, reqIdx, nparts, failed, completed, sent>>
vars == <<pc, redactVars, finalOutput, sessVars, progVars>>

(***************************************************************************)
(* Characters                                                              *)
(***************************************************************************)
Digits == {"0", "1", "2", "3", "4", "5", "6", "7", "8", "9"}
DigitSeq == <<"0", "1", "2", "3", "4", "5", "6", "7", "8", "9">>
Lower == {"a", "b", "c", "d", "e", "f", "g", "h", "i", "j", "k", "l", "m",
          "n", "o", "p", "q", "r", "s", "t", "u", "v", "w", "x", "y", "z"}
Upper == {"A", "B", "C", "D", "E", "F", "G", "H", "I", "J", "K", "L", "M",
          "N", "O", "P", "Q", "R", "S", "T", "U", "V", "W", "X", "Y", "Z"}
Letters == Lower \cup Upper
\* \w of a JavaScript regular expression without the u flag
WordChars == Letters \cup Digits \cup {"_"}
\* [A-Za-z0-9._%+-]
EmailLocalChars == Letters \cup Digits \cup {".", "_", "%", "+", "-"}
\* [A-Za-z0-9.-]
EmailDomainChars == Letters \cup Digits \cup {".", "-"}
\* [ .-]
PhoneSeparators == {" ", ".", "-"}

\* the character at index i, "" outside the text
Ch(s, i) == IF i >= 1 /\ i <= Len(s) THEN s[i] ELSE ""
IsWord(c) == c \in WordChars
\* \b between the characters i-1 and i
WordBoundary(s, i) == IsWord(Ch(s, i - 1)) # IsWord(Ch(s, i))
\* the literal w at index i
HasAt(s, i, w) == i + Len(w) - 1 <= Len(s) /\ SubSeq(s, i, i + Len(w) - 1) = w
\* \d{n} at index i
DigitsAt(s, i, n) == \A k \in 0..(n - 1) : Ch(s, i + k) \in Digits

RECURSIVE RunLen(_, _, _)
\* length of the longest run of characters of class C that starts at index i
RunLen(s, i, C) == IF Ch(s, i) \in C THEN 1 + RunLen(s, i + 1, C) ELSE 0

\* the first alternative that matched (0: no match)
FirstOf(a, b) == IF a > 0 THEN a ELSE b

(***************************************************************************)
(* PII_PATTERNS                                                            *)
(***************************************************************************)
Labels == <<"SSN", "EMAIL", "PHONE_NUMBER">>
LabelText(label) ==
    CASE label = "SSN" -> <<"S", "S", "N">>
      [] label = "EMAIL" -> <<"E", "M", "A", "I", "L">>
      [] label = "PHONE_NUMBER" ->
            <<"P", "H", "O", "N", "E", "_", "N", "U", "M", "B", "E", "R">>

\* /\b\d{3}-\d{2}-\d{4}\b/ at index i: the length of the match, or 0
SSN_RE(s, i) ==
    IF /\ WordBoundary(s, i)
       /\ DigitsAt(s, i, 3) /\ Ch(s, i + 3) = "-"
       /\ DigitsAt(s, i + 4, 2) /\ Ch(s, i + 6) = "-"
       /\ DigitsAt(s, i + 7, 4)
       /\ WordBoundary(s, i + 11)
    THEN 11 ELSE 0

\* /\b[A-Za-z0-9._%+-]+@[A-Za-z0-9.-]+\.[A-Za-z]{2,}\b/ at index i.
\* The local part is the whole run (a shorter one is followed by a character
\* of the class, never by @).  The domain is tried from its longest length
\* down; for one domain length the top-level part is the whole run of letters
\* (a shorter one is followed by a letter, where \b fails).
EMAIL_RE(s, i) ==
    LET l == RunLen(s, i, EmailLocalChars)
        d0 == i + l + 1
        dmax == RunLen(s, d0, EmailDomainChars)
        Tld(d) == RunLen(s, d0 + d + 1, Letters)
        Ok(d) == /\ Ch(s, d0 + d) = "."
                 /\ Tld(d) >= 2
                 /\ WordBoundary(s, d0 + d + 1 + Tld(d))
        good == {d \in 1..dmax : Ok(d)}
    IN  IF WordBoundary(s, i) /\ l >= 1 /\ Ch(s, i + l) = "@" /\ good # {}
        THEN LET d == CHOOSE x \in good : \A y \in good : y <= x
             IN  l + 1 + d + 1 + Tld(d)
        ELSE 0

\* \d{4}(?!\w) at index i: the index after the match, or 0
PhoneLast4(s, i) ==
    IF DigitsAt(s, i, 4) /\ ~IsWord(Ch(s, i + 4)) THEN i + 4 ELSE 0
\* [ .-]? followed by the rest: withSep is the rest matched after the
\* separator, without the rest matched at index i; the separator is tried first
PhoneSep(s, i, withSep, without) ==
    FirstOf(IF Ch(s, i) \in PhoneSeparators THEN withSep ELSE 0, without)
\* \d{3}[ .-]?\d{4}(?!\w)
PhoneMid(s, i) ==
    IF DigitsAt(s, i, 3)
    THEN PhoneSep(s, i + 3, PhoneLast4(s, i + 4), PhoneLast4(s, i + 3))
    ELSE 0
\* (?:\(\d{3}\)|\d{3})[ .-]?\d{3}[ .-]?\d{4}(?!\w)
PhoneArea(s, i) ==
    FirstOf(IF Ch(s, i) = "(" /\ DigitsAt(s, i + 1, 3) /\ Ch(s, i + 4) = ")"
            THEN PhoneSep(s, i + 5, PhoneMid(s, i + 6), PhoneMid(s, i + 5))
            ELSE 0,
            IF DigitsAt(s, i, 3)
            THEN PhoneSep(s, i + 3, PhoneMid(s, i + 4), PhoneMid(s, i + 3))
            ELSE 0)
\* \+\d{1,3}[ .-]? with n digits, followed by the rest
PhoneCountry(s, i, n) ==
    IF Ch(s, i) = "+" /\ DigitsAt(s, i + 1, n)
    THEN PhoneSep(s, i + 1 + n, PhoneArea(s, i + 2 + n), PhoneArea(s, i + 1 + n))
    ELSE 0
\* /(?<!\w)(?:\+\d{1,3}[ .-]?)?(?:\(\d{3}\)|\d{3})[ .-]?\d{3}[ .-]?\d{4}(?!\w)/
\* at index i: greedy choices first, as the backtracking engine tries them
PHONE_NUMBER_RE(s, i) ==
    IF IsWord(Ch(s, i - 1)) THEN 0
    ELSE LET e == FirstOf(PhoneCountry(s, i, 3),
                  FirstOf(PhoneCountry(s, i, 2),
                  FirstOf(PhoneCountry(s, i, 1), PhoneArea(s, i))))
         IN  IF e > 0 THEN e - i ELSE 0

PII_PATTERNS(label, s, i) ==
    CASE label = "SSN" -> SSN_RE(s, i)
      [] label = "EMAIL" -> EMAIL_RE(s, i)
      [] label = "PHONE_NUMBER" -> PHONE_NUMBER_RE(s, i)

RECURSIVE MatchAllFrom(_, _, _)
\* the matched substrings from index i on, left to right, not overlapping
MatchAllFrom(label, s, i) ==
    IF i > Len(s) THEN << >>
    ELSE LET n == PII_PATTERNS(label, s, i)
         IN  IF n > 0
             THEN <<SubSeq(s, i, i + n - 1)>> \o MatchAllFrom(label, s, i + n)
             ELSE MatchAllFrom(label, s, i + 1)
\* Array.from(modified.matchAll(re)).map((m) => m[0])
matchAll(label, s) == MatchAllFrom(label, s, 1)

(***************************************************************************)
(* redactText                                                              *)
(***************************************************************************)
RECURSIVE toString(_)
\* n.toString()
toString(n) ==
    IF n < 10 THEN <<DigitSeq[n + 1]>>
    ELSE toString(n \div 10) \o <<DigitSeq[(n % 10) + 1]>>
\* n.toString().padStart(4, "0")
pad4(n) ==
    LET d == toString(n)
    IN  IF Len(d) >= 4 THEN d ELSE [k \in 1..(4 - Len(d)) |-> "0"] \o d

\* `${label}_${pad4(n)}`
Placeholder(label, n) == LabelText(label) \o <<"_">> \o pad4(n)

RECURSIVE SplitJoinFrom(_, _, _, _)
\* s.split(match).join(placeholder): every occurrence of the literal match,
\* found left to right without overlap, becomes the placeholder
SplitJoinFrom(s, i, match, placeholder) ==
    IF i > Len(s) THEN << >>
    ELSE IF HasAt(s, i, match)
         THEN placeholder \o SplitJoinFrom(s, i + Len(match), match, placeholder)
         ELSE <<s[i]>> \o SplitJoinFrom(s, i + 1, match, placeholder)
SplitJoin(s, match, placeholder) == SplitJoinFrom(s, 1, match, placeholder)

\* Object.values(mapping)
Values(m) == {m[k] : k \in DOMAIN m}
\* mapping[placeholder] = match
Assign(m, placeholder, match) ==
    [k \in DOMAIN m \cup {placeholder} |->
        IF k = placeholder THEN match ELSE m[k]]
NoMapping == [k \in {} |-> << >>]

\* a counter that is not advanced
BumpForgotten(c, label) == c
\* counters[label] += 1
Bump(c, label) == [c EXCEPT ![label] = c[label] + 1]

\* the loop body without the test of line 36
LoopBodyNoReuse(st, label, match) ==
    LET placeholder == Placeholder(label, st.counters[label])
    IN  [modified |-> SplitJoin(st.modified, match, placeholder),
         mapping |-> Assign(st.mapping, placeholder, match),
         counters |-> Bump(st.counters, label)]
\* the body of the inner loop, on the state st = [modified, mapping, counters]
LoopBody(st, label, match) ==
    IF match \in Values(st.mapping) THEN st
    ELSE LET placeholder == Placeholder(label, st.counters[label])
         IN  [modified |-> SplitJoin(st.modified, match, placeholder),
              mapping |-> Assign(st.mapping, placeholder, match),
              counters |-> Bump(st.counters, label)]

RECURSIVE ForMatches(_, _, _)
ForMatches(st, label, ms) ==
    IF ms = << >> THEN st
    ELSE ForMatches(LoopBody(st, label, Head(ms)), label, Tail(ms))

RECURSIVE ForLabels(_, _)
ForLabels(st, k) ==
    IF k > Len(Labels) THEN st
    ELSE ForLabels(ForMatches(st, Labels[k], matchAll(Labels[k], st.modified)),
                   k + 1)

InitialCounters == [SSN |-> 1, EMAIL |-> 1, PHONE_NUMBER |-> 1]

redactText(t) ==
    LET st == ForLabels([modified |-> t, mapping |-> NoMapping,
                         counters |-> InitialCounters], 1)
    IN  [redactedText |-> st.modified, mapping |-> st.mapping]

(***************************************************************************)
(* PLACEHOLDER_RE and unredactOnce                                         *)
(***************************************************************************)
MAX_PH_LEN == 17

\* one alternative LABEL_\d{4} of PLACEHOLDER_RE at index i, with the closing \b
PlaceholderAlt(s, i, label) ==
    LET w == LabelText(label) \o <<"_">>
    IN  IF /\ HasAt(s, i, w)
           /\ DigitsAt(s, i + Len(w), 4)
           /\ WordBoundary(s, i + Len(w) + 4)
        THEN Len(w) + 4 ELSE 0

\* /\b(?:SSN_\d{4}|EMAIL_\d{4}|PHONE_NUMBER_\d{4})\b/ at index i
PLACEHOLDER_RE(s, i) ==
    IF ~WordBoundary(s, i) THEN 0
    ELSE FirstOf(PlaceholderAlt(s, i, "SSN"),
         FirstOf(PlaceholderAlt(s, i, "EMAIL"),
                 PlaceholderAlt(s, i, "PHONE_NUMBER")))

\* a replacer that drops the tokens it does not know
ReplacerDropsUnknown(m, token) == IF token \in DOMAIN m THEN m[token] ELSE << >>
\* (m) => mapping[m] ?? m
Replacer(m, token) == IF token \in DOMAIN m THEN m[token] ELSE token

RECURSIVE PlaceholderMatchesFrom(_, _)
\* the matches of the global PLACEHOLDER_RE from index i on, each <<index, length>>
PlaceholderMatchesFrom(s, i) ==
    IF i > Len(s) THEN << >>
    ELSE LET n == PLACEHOLDER_RE(s, i)
         IN  IF n > 0
             THEN <<<<i, n>>>> \o PlaceholderMatchesFrom(s, i + n)
             ELSE PlaceholderMatchesFrom(s, i + 1)

RECURSIVE ReplaceMatches(_, _, _, _, _)
\* String.prototype.replace: the text between the matches is copied, each
\* match ms[k] becomes what the replacer returns for it; pos is the index
\* after the previous match
ReplaceMatches(s, ms, k, pos, m) ==
    IF k > Len(ms) THEN SubSeq(s, pos, Len(s))
    ELSE LET i == ms[k][1]
             n == ms[k][2]
         IN  SubSeq(s, pos, i - 1)
             \o Replacer(m, SubSeq(s, i, i + n - 1))
             \o ReplaceMatches(s, ms, k + 1, i + n, m)

\* text.replace(PLACEHOLDER_RE, (m) => mapping[m] ?? m)
unredactOnce(s, m) == ReplaceMatches(s, PlaceholderMatchesFrom(s, 1), 1, 1, m)

(***************************************************************************)
(* Inputs of the redaction runs                                            *)
(***************************************************************************)
MaxPieces == 3
TextPieces ==
    { <<" ">>, <<"a">>, <<" ", "a">>, <<"@", "b", ".", "c", "o", "m">>,
      <<"a", "@", "b", ".", "c", "o", "m">>,
      <<"1", "2", "3", "-", "4", "5", "-", "6", "7", "8", "9">>,
      <<"0", "0", "1", "-", "4", "5", "-", "6", "7", "8", "9">>,
      <<"-", "4", "5", "-", "6", "7", "8", "9">>,
      <<"5", "5", "5", "-", "1", "2", "3", "-", "4", "5", "6", "7">>,
      <<"a", "a", "@", "b", ".", "c", "o", "m">> }
\* the argument of a call that follows a call on another text
OtherText == <<"1", "2", "3", "-", "4", "5", "-", "6", "7", "8", "9", " ",
               "a", "@", "b", ".", "c", "o", "m">>

RECURSIVE Concats(_, _)
\* the concatenations of at most n pieces of P
Concats(P, n) ==
    IF n = 0 THEN {<< >>}
    ELSE LET prev == Concats(P, n - 1)
         IN  prev \cup {p \o t : p \in P, t \in prev}

(***************************************************************************)
(* redactText, one loop iteration per step, then the one-shot restoration  *)
(***************************************************************************)
RedactInit ==
    /\ pc = "redact_begin"
    /\ text \in Concats(TextPieces, MaxPieces)
    /\ modified = << >>
    /\ mapping = NoMapping
    /\ counters = InitialCounters
    /\ labelIdx = 0
    /\ matches = << >>
    /\ seen = << >>
    /\ finalOutput = << >>
    /\ buf = << >>
    /\ shown = << >>
    /\ raw = << >>
    /\ rest = << >>
    /\ bufSrc = << >>
    /\ shownSrc = << >>
    /\ hasKey = TRUE
    /\ rows = << >>
    /\ reqIdx = 0
    /\ nparts = 0
    /\ failed = {}
    /\ completed = 0
    /\ sent = << >>

\* counters that live outside the function: a call goes on where the last
\* one stopped
CountersKept(old) == old
\* line 29: the counters are a local of the call, created with it
NewCounters(old) == InitialCounters

\* lines 27-29
RedactBegin ==
    /\ pc = "redact_begin"
    /\ modified' = text
    /\ mapping' = NoMapping
    /\ counters' = NewCounters(counters)
    /\ labelIdx' = 1
    /\ seen' = << >>
    /\ pc' = "redact_label"
    /\ UNCHANGED <<text, matches, finalOutput, sessVars, progVars>>

\* lines 31-33: the next label, its matches on the current buffer
RedactScan ==
    /\ pc = "redact_label"
    /\ labelIdx <= Len(Labels)
    /\ matches' = matchAll(Labels[labelIdx], modified)
    /\ pc' = "redact_match"
    /\ UNCHANGED <<text, modified, mapping, counters, labelIdx, seen, finalOutput, sessVars, progVars>>

\* lines 35-41: one iteration of the inner loop
RedactMatch ==
    /\ pc = "redact_match"
    /\ matches # << >>
    /\ LET st == LoopBody([modified |-> modified, mapping |-> mapping,
                           counters |-> counters], Labels[labelIdx], Head(matches))
       IN  /\ modified' = st.modified
           /\ mapping' = st.mapping
           /\ counters' = st.counters
    /\ matches' = Tail(matches)
    /\ seen' = Append(seen, Head(matches))
    /\ UNCHANGED <<pc, text, labelIdx, finalOutput, sessVars, progVars>>

\* line 35, 31: the inner loop ends, the outer loop advances
RedactNextLabel ==
    /\ pc = "redact_match"
    /\ matches = << >>
    /\ labelIdx' = labelIdx + 1
    /\ pc' = "redact_label"
    /\ UNCHANGED <<text, modified, mapping, counters, matches, seen, finalOutput, sessVars, progVars>>

\* line 44
RedactReturn ==
    /\ pc = "redact_label"
    /\ labelIdx > Len(Labels)
    /\ pc' = "redacted"
    /\ UNCHANGED <<redactVars, finalOutput, sessVars, progVars>>

\* unredactOnce(redactedText, mapping): the generation step is the identity
RoundTrip ==
    /\ pc = "redacted"
    /\ finalOutput' = unredactOnce(modified, mapping)
    /\ pc' = "restored"
    /\ UNCHANGED <<redactVars, sessVars, progVars>>

\* one more call of redactText, on the same text or on another one; what
\* the call before left behind is still there when it begins
RedactAgain ==
    /\ pc = "restored"
    /\ completed = 0
    /\ completed' = 1
    /\ text' \in {text, OtherText}
    /\ pc' = "redact_begin"
    /\ UNCHANGED <<modified, mapping, counters, labelIdx, matches, seen,
                   finalOutput, sessVars, hasKey, rows, reqIdx, nparts, failed, sent>>

RedactNext ==
    \/ RedactBegin
    \/ RedactScan
    \/ RedactMatch
    \/ RedactNextLabel
    \/ RedactReturn
    \/ RoundTrip
    \/ RedactAgain

RedactSpec == RedactInit /\ [][RedactNext]_vars
(***************************************************************************)
(* makeStreamUnredactor                                                    *)
(***************************************************************************)
\* a tail one character shorter
TailTooShort == MAX_PH_LEN - 2
\* a tail one character longer
TailTooLong == MAX_PH_LEN
\* const TAIL = MAX_PH_LEN - 1
TAIL == MAX_PH_LEN - 1

\* lines 62-68: everything before the last TAIL characters is returned
Emit(replaced) ==
    LET emitLen == Len(replaced) - TAIL
    IN  IF Len(replaced) > TAIL
        THEN [safe |-> SubSeq(replaced, 1, emitLen),
              buf |-> SubSeq(replaced, emitLen + 1, Len(replaced))]
        ELSE [safe |-> << >>, buf |-> replaced]

\* one call of the closure on the buffer b: lines 60-68
toUser(b, incoming, m) == Emit(unredactOnce(b \o incoming, m))

RECURSIVE ReplaceSrc(_, _, _, _, _, _)
\* where each character of ReplaceMatches(s, ms, k, pos, m) comes from: src
\* is the provenance of s; a substituted value has provenance 0
ReplaceSrc(s, src, ms, k, pos, m) ==
    IF k > Len(ms) THEN SubSeq(src, pos, Len(s))
    ELSE LET i == ms[k][1]
             n == ms[k][2]
             token == SubSeq(s, i, i + n - 1)
             r == Replacer(m, token)
         IN  SubSeq(src, pos, i - 1)
             \o (IF token \notin DOMAIN m /\ r = token
                 THEN SubSeq(src, i, i + n - 1)
                 ELSE [j \in 1..Len(r) |-> 0])
             \o ReplaceSrc(s, src, ms, k + 1, i + n, m)

\* the provenance of the result of toUser(b, incoming, m)
toUserSrc(b, bSrc, incoming, inSrc, m) ==
    LET joined == b \o incoming
    IN  Emit(ReplaceSrc(joined, bSrc \o inSrc,
                        PlaceholderMatchesFrom(joined, 1), 1, 1, m))

\* the session receives the fragment incoming
Deliver(incoming) ==
    LET r == toUser(buf, incoming, mapping)
        inSrc == [k \in 1..Len(incoming) |-> Len(raw) + k]
        g == toUserSrc(buf, bufSrc, incoming, inSrc, mapping)
    IN  /\ buf' = r.buf
        /\ shown' = shown \o r.safe
        /\ raw' = raw \o incoming
        /\ bufSrc' = g.buf
        /\ shownSrc' = shownSrc \o g.safe

(***************************************************************************)
(* One session driven by a caller: any cut of a stream into fragments,     *)
(* the empty fragment at its end, and a caller that goes on after it       *)
(***************************************************************************)
MaxStreamPieces == 3
StreamPieces ==
    { <<" ">>, <<"5">>,
      <<"E", "M", "A", "I", "L", "_", "0", "0", "0", "1">>,
      <<"P", "H", "O", "N", "E", "_", "N", "U", "M", "B", "E", "R", "_",
        "0", "0", "0", "1">> }
\* prompts whose mappings the sessions are created with:
\* "a@b.com" and "555-123-4567 SSN_0001@b.com 123-45-6789"
SessionPrompts ==
    { <<"a", "@", "b", ".", "c", "o", "m">>,
      <<"5", "5", "5", "-", "1", "2", "3", "-", "4", "5", "6", "7", " ",
        "S", "S", "N", "_", "0", "0", "0", "1", "@", "b", ".", "c", "o", "m",
        " ", "1", "2", "3", "-", "4", "5", "-", "6", "7", "8", "9">> }

SessionInit ==
    /\ pc = "session_open"
    /\ text \in SessionPrompts
    /\ modified = redactText(text).redactedText
    /\ mapping = redactText(text).mapping
    /\ counters = InitialCounters
    /\ labelIdx = 0
    /\ matches = << >>
    /\ seen = << >>
    /\ finalOutput = << >>
    /\ buf = << >>
    /\ shown = << >>
    /\ raw = << >>
    /\ rest \in Concats(StreamPieces, MaxStreamPieces)
    /\ bufSrc = << >>
    /\ shownSrc = << >>
    /\ hasKey = TRUE
    /\ rows = << >>
    /\ reqIdx = 0
    /\ nparts = 0
    /\ failed = {}
    /\ completed = 0
    /\ sent = << >>

\* the next k characters of the stream arrive as one fragment
Feed(k) ==
    /\ pc = "session_open"
    /\ k \in 1..Len(rest)
    /\ Deliver(SubSeq(rest, 1, k))
    /\ rest' = SubSeq(rest, k + 1, Len(rest))
    /\ UNCHANGED <<pc, redactVars, finalOutput, progVars>>

\* the stream has ended: the caller delivers the empty fragment
Flush ==
    /\ pc = "session_open"
    /\ rest = << >>
    /\ Deliver(<< >>)
    /\ pc' = "session_flushed"
    /\ UNCHANGED <<redactVars, finalOutput, rest, progVars>>

\* a caller delivers one more fragment to the flushed session
FeedAfterFlush(fragment) ==
    /\ pc = "session_flushed"
    /\ Deliver(fragment)
    /\ pc' = "session_misused"
    /\ UNCHANGED <<redactVars, finalOutput, rest, progVars>>

SessionNext ==
    \/ \E k \in 1..(MaxStreamPieces * MAX_PH_LEN) : Feed(k)
    \/ Flush
    \/ \E fragment \in StreamPieces : FeedAfterFlush(fragment)

SessionSpec == SessionInit /\ [][SessionNext]_vars
(***************************************************************************)
(* main, processRequest and callLLMStream                                  *)
(***************************************************************************)
MaxRequests == 2
MaxParts == 3

\* the value of a property that a record does not have
Undefined == <<"undefined">>
\* a field inside a template literal
Interpolate(v) ==
    IF v = Undefined THEN <<"u", "n", "d", "e", "f", "i", "n", "e", "d">> ELSE v
\* `${system_prompt} ${prompt}`
Combined(row) ==
    Interpolate(row.system_prompt) \o <<" ">> \o Interpolate(row.prompt)

\* the columns main reads from each record
Columns == {"system_prompt", "prompt"}
\* header lines of requests.csv: both columns, or one of them absent
Headers == {Columns, {"system_prompt"}, {"prompt"}}
\* data lines of requests.csv, by column: a,123-45-6789 / a,a@b.com
RowValues ==
    { [system_prompt |-> <<"a">>,
       prompt |-> <<"1", "2", "3", "-", "4", "5", "-", "6", "7", "8", "9">>],
      [system_prompt |-> <<"a">>,
       prompt |-> <<"a", "@", "b", ".", "c", "o", "m">>] }
\* parse(csvRaw, { columns: true, ... }): one record per data line, keyed by
\* the header line; a column the header does not name is no property of any
\* record, and reading it gives undefined
parse(header, lines) ==
    [i \in 1..Len(lines) |->
        [c \in Columns |-> IF c \in header THEN lines[i][c] ELSE Undefined]]

RECURSIVE RowLists(_)
RowLists(n) ==
    IF n = 0 THEN {<< >>}
    ELSE LET prev == RowLists(n - 1)
         IN  prev \cup {<<r>> \o l : r \in RowValues, l \in {x \in prev : Len(x) = n - 1}}

\* what a part of the service's stream may carry in delta.content
PartDeltas ==
    { << >>, <<"x">>, <<"S", "S", "N", "_", "0">>, <<"0", "0", "1", " ">>,
      <<"E", "M", "A", "I", "L", "_", "0", "0", "0", "1">> }

\* const mock
Mock ==
    <<
       "O", "P", "E", "N", "A", "I", "_", "A", "P", "I", "_", "K", "E",
       "Y", " ", "n", "o", "t", " ", "s", "e", "t", ".", " ", "P", "l",
       "e", "a", "s", "e", " ", "u", "p", "d", "a", "t", "e", " ", "f",
       "i", "e", "l", "d", ".", " ", "P", "l", "a", "c", "e", "h", "o",
       "l", "d", "e", "r", "s", " ", "w", "i", "l", "l", " ", "b", "e",
       " ", "h", "a", "n", "d", "l", "e", "d", ",", " ", "b", "u", "t",
       " ", "f", "i", "n", "a", "l", " ", "o", "u", "t", "p", "u", "t",
       " ", "a", "n", "d", " ", "s", "t", "r", "e", "a", "m", " ", "w",
       "i", "l", "l", " ", "n", "o", "t", " ", "r", "e", "f", "l", "e",
       "c", "t", " ", "a", "c", "c", "u", "r", "a", "t", "e", " ", "r",
       "e", "s", "p", "o", "n", "s", "e", "s", "."
    >>
\* mock.slice(i, i + 12)
MockChunkLen == 12

\* no catch block: the error leaves callLLMStream and processRequest
Uncaught == "main_catch"
\* the catch block of callLLMStream (lines 112-116): the error is logged and
\* the function returns the raw output it has
CatchGenerationError == "llm_return"

Init ==
    /\ pc = "main"
    /\ hasKey \in BOOLEAN
    /\ text = << >>
    /\ modified = << >>
    /\ mapping = NoMapping
    /\ counters = InitialCounters
    /\ labelIdx = 0
    /\ matches = << >>
    /\ seen = << >>
    /\ finalOutput = << >>
    /\ buf = << >>
    /\ shown = << >>
    /\ raw = << >>
    /\ rest = << >>
    /\ bufSrc = << >>
    /\ shownSrc = << >>
    /\ rows = << >>
    /\ reqIdx = 0
    /\ nparts = 0
    /\ failed = {}
    /\ completed = 0
    /\ sent = << >>

\* lines 146-153: the file is read and parsed
MainLoad ==
    /\ pc = "main"
    /\ \E header \in Headers, lines \in RowLists(MaxRequests) :
           rows' = parse(header, lines)
    /\ reqIdx' = 1
    /\ pc' = "main_loop"
    /\ UNCHANGED <<redactVars, finalOutput, sessVars, hasKey, nparts, failed,
                   completed, sent>>

\* lines 149-150 throw, lines 159-161 report it
MainLoadFails ==
    /\ pc = "main"
    /\ pc' = "main_catch"
    /\ UNCHANGED <<redactVars, finalOutput, sessVars, progVars>>

\* line 155: the loop is over
MainLoopEnd ==
    /\ pc = "main_loop"
    /\ reqIdx > Len(rows)
    /\ pc' = "exit"
    /\ UNCHANGED <<redactVars, finalOutput, sessVars, progVars>>

\* line 157 with no await: the loop goes on to the next call as soon as the
\* call in progress suspends
LoopTurnNotAwaited == pc \in {"main_loop", "api_stream", "mock_loop"}
\* lines 155-157: `await processRequest(...)`, the loop takes its next turn
\* only when the call in progress has settled
LoopTurn == pc = "main_loop"

\* lines 157, 119-134, 78-81: redaction, a new session, the call is entered
ProcessRequest ==
    /\ LoopTurn
    /\ reqIdx <= Len(rows)
    /\ LET combined == Combined(rows[reqIdx])
           r == redactText(combined)
       IN  /\ text' = combined
           /\ modified' = r.redactedText
           /\ mapping' = r.mapping
    /\ buf' = << >>
    /\ shown' = << >>
    /\ raw' = << >>
    /\ bufSrc' = << >>
    /\ shownSrc' = << >>
    /\ rest' = IF hasKey THEN << >> ELSE Mock
    /\ nparts' = 0
    /\ finalOutput' = << >>
    /\ sent' = << >>
    /\ pc' = IF hasKey THEN "api_create" ELSE "mock_loop"
    /\ UNCHANGED <<counters, labelIdx, matches, seen,
                   hasKey, rows, reqIdx, failed, completed>>

\* lines 85-90: one chunk of the mock
MockChunk ==
    /\ pc = "mock_loop"
    /\ rest # << >>
    /\ LET n == IF Len(rest) < MockChunkLen THEN Len(rest) ELSE MockChunkLen
       IN  /\ Deliver(SubSeq(rest, 1, n))
           /\ sent' = Append(sent, SubSeq(rest, 1, n))
           /\ rest' = SubSeq(rest, n + 1, Len(rest))
    /\ UNCHANGED <<pc, redactVars, finalOutput, hasKey, rows, reqIdx, nparts,
                   failed, completed>>

\* lines 91-92
MockFlush ==
    /\ pc = "mock_loop"
    /\ rest = << >>
    /\ Deliver(<< >>)
    /\ sent' = Append(sent, << >>)
    /\ pc' = "llm_return"
    /\ UNCHANGED <<redactVars, finalOutput, rest, hasKey, rows, reqIdx, nparts,
                   failed, completed>>

\* lines 96-101: the service answers with a stream
ApiCreate ==
    /\ pc = "api_create"
    /\ pc' = "api_stream"
    /\ UNCHANGED <<redactVars, finalOutput, sessVars, progVars>>

\* lines 96-101 throw
ApiCreateFails ==
    /\ pc = "api_create"
    /\ failed' = failed \cup {reqIdx}
    /\ pc' = CatchGenerationError
    /\ UNCHANGED <<redactVars, finalOutput, sessVars, hasKey, rows, reqIdx,
                   nparts, completed, sent>>

\* every delta is passed on, the empty one too
AlwaysTruthy(delta) == TRUE
\* line 105, `if (delta)`: the empty string is falsy
Truthy(delta) == delta # << >>

\* lines 103-110: one part of the stream
ApiPart(delta) ==
    /\ pc = "api_stream"
    /\ nparts < MaxParts
    /\ nparts' = nparts + 1
    /\ IF Truthy(delta)
       THEN Deliver(delta) /\ sent' = Append(sent, delta)
       ELSE UNCHANGED <<buf, shown, raw, bufSrc, shownSrc, sent>>
    /\ UNCHANGED <<pc, redactVars, finalOutput, rest, hasKey, rows, reqIdx,
                   failed, completed>>

\* line 103 throws: the stream breaks
ApiStreamFails ==
    /\ pc = "api_stream"
    /\ failed' = failed \cup {reqIdx}
    /\ pc' = CatchGenerationError
    /\ UNCHANGED <<redactVars, finalOutput, sessVars, hasKey, rows, reqIdx,
                   nparts, completed, sent>>

\* line 111: the stream ends
ApiEnd ==
    /\ pc = "api_stream"
    /\ Deliver(<< >>)
    /\ sent' = Append(sent, << >>)
    /\ pc' = "llm_return"
    /\ UNCHANGED <<redactVars, finalOutput, rest, hasKey, rows, reqIdx, nparts,
                   failed, completed>>

\* lines 116, 134-141, 155: the call returns, the final output is printed
FinalOutput ==
    /\ pc = "llm_return"
    /\ finalOutput' = unredactOnce(raw, mapping)
    /\ completed' = completed + 1
    /\ reqIdx' = reqIdx + 1
    /\ pc' = "main_loop"
    /\ UNCHANGED <<redactVars, sessVars, hasKey, rows, nparts, failed, sent>>

Next ==
    \/ MainLoad
    \/ MainLoadFails
    \/ MainLoopEnd
    \/ ProcessRequest
    \/ MockChunk
    \/ MockFlush
    \/ ApiCreate
    \/ ApiCreateFails
    \/ \E delta \in PartDeltas : ApiPart(delta)
    \/ ApiStreamFails
    \/ ApiEnd
    \/ FinalOutput

Spec == Init /\ [][Next]_vars
(***************************************************************************)
(* Properties                                                              *)
(***************************************************************************)
\* w occurs in s
Contains(s, w) == \E i \in 1..(Len(s) - Len(w) + 1) : HasAt(s, i, w)
\* the whole stream of the session
Stream == raw \o rest
\* the occurrences <<index, length>> of placeholder tokens in the stream
Occurrences ==
    LET ms == PlaceholderMatchesFrom(Stream, 1) IN {ms[k] : k \in 1..Len(ms)}
TokenAt(o) == SubSeq(Stream, o[1], o[1] + o[2] - 1)
Mapped == {o \in Occurrences : TokenAt(o) \in DOMAIN mapping}
Unknown == {o \in Occurrences : TokenAt(o) \notin DOMAIN mapping}
\* the stream indices an occurrence covers
Covers(o) == o[1]..(o[1] + o[2] - 1)
\* the stream indices whose character the session has returned as it arrived
ShownLiteral == {shownSrc[j] : j \in 1..Len(shownSrc)} \ {0}

\* C1: after the fragments of a stream and one empty fragment, the
\* concatenation of everything the session returned is unredactOnce of the
\* concatenation of the fragments.
C1_FlushCompleteness ==
    pc = "session_flushed" => shown = unredactOnce(raw, mapping)

\* C2: the call with the empty fragment after the last fragment returns the
\* whole remaining buffer and leaves the buffer empty.
C2_FinalFlushEmptiesBuffer ==
    pc = "session_flushed" => buf = << >>

\* C3: no character of a mapped placeholder occurrence of the stream is ever
\* returned as it arrived, wherever the stream is cut: neither the token nor a
\* part of it becomes visible at any step.
C3_BoundarySafety ==
    \A o \in Mapped : Covers(o) \cap ShownLiteral = {}

\* C3 witness: a fragment boundary lies inside a mapped token, text has been
\* returned, and the part of the token that has arrived is withheld.
C3_Witness ==
    /\ pc = "session_open"
    /\ shown # << >>
    /\ \E o \in Mapped : o[1] <= Len(raw) /\ Len(raw) < o[1] + o[2] - 1

\* C4: unredactOnce(redactText(T).redactedText, redactText(T).mapping) = T.
C4_RoundTrip ==
    pc = "restored" => finalOutput = text

\* C5: the redacted text contains no value of the returned mapping.
C5_NoValueInRedactedText ==
    pc = "redacted" => \A k \in DOMAIN mapping : ~Contains(modified, mapping[k])

\* C6: every match the inner loop has visited is the value of exactly one
\* mapping entry; a match that is already a value changes neither the mapping
\* nor a counter.
C6_Deduplication ==
    [][(pc = "redact_match" /\ matches # << >>) =>
        /\ Head(matches) \in Values(mapping) =>
               mapping' = mapping /\ counters' = counters
        /\ \A j \in 1..Len(seen') :
               Cardinality({k \in DOMAIN mapping' : mapping'[k] = seen'[j]}) = 1
      ]_vars

\* C6 witness: a value has been visited twice and the pass is over.
C6_Witness ==
    /\ pc = "redacted"
    /\ \E i, j \in 1..Len(seen) : i < j /\ seen[i] = seen[j]
    /\ \A j \in 1..Len(seen) :
           Cardinality({k \in DOMAIN mapping : mapping[k] = seen[j]}) = 1

\* the placeholders of one label in a mapping
KeysOf(m, label) ==
    {k \in DOMAIN m : \E n \in 1..(Cardinality(DOMAIN m) + 1) : k = Placeholder(label, n)}

\* C7: a minted placeholder is new, it carries the counter of its label, that
\* counter then grows by one and no other changes; no entry is overwritten;
\* the counters start at 1.
C7_UniqueMinting ==
    [][/\ pc = "redact_begin" => \A l \in DOMAIN counters' : counters'[l] = 1
       /\ (pc = "redact_match" /\ matches # << >>
              /\ Head(matches) \notin Values(mapping)) =>
            LET label == Labels[labelIdx]
                placeholder == Placeholder(label, counters[label])
            IN  /\ placeholder \notin DOMAIN mapping
                /\ DOMAIN mapping' = DOMAIN mapping \cup {placeholder}
                /\ mapping'[placeholder] = Head(matches)
                /\ \A k \in DOMAIN mapping : mapping'[k] = mapping[k]
                /\ counters'[label] = counters[label] + 1
                /\ \A l \in DOMAIN counters \ {label} : counters'[l] = counters[l]
                /\ \A l \in DOMAIN counters :
                       Cardinality(KeysOf(mapping', l)) = counters'[l] - 1
      ]_vars

\* C7 witness: two placeholders of one label have been minted.
C7_Witness ==
    /\ pc = "redacted"
    /\ \E l \in DOMAIN counters : counters[l] = 3 /\ Cardinality(KeysOf(mapping, l)) = 2

\* C8: a placeholder token of the stream that the mapping does not know stays
\* as it is: each of its characters that has arrived is in the returned text or
\* in the buffer, unchanged and in place, and unredactOnce keeps it; when the
\* mapping knows no token of the stream at all, unredactOnce returns its
\* input, and when no key of the mapping occurs in the stream the session
\* passes the stream through.
C8_UnknownTokenKept ==
    LET out == shown \o buf
        src == shownSrc \o bufSrc
        once == ReplaceSrc(Stream, [k \in 1..Len(Stream) |-> k],
                           PlaceholderMatchesFrom(Stream, 1), 1, 1, mapping)
    IN  /\ Len(src) = Len(out)
        /\ \A j \in 1..Len(src) : src[j] # 0 => out[j] = raw[src[j]]
        /\ \A o \in Unknown :
               /\ \A x \in Covers(o) : x <= Len(raw) => \E j \in 1..Len(src) : src[j] = x
               /\ \A x \in Covers(o) : \E j \in 1..Len(once) : once[j] = x
        /\ Len(once) = Len(unredactOnce(Stream, mapping))
        /\ Mapped = {} => unredactOnce(Stream, mapping) = Stream
        /\ (\A k \in DOMAIN mapping : ~Contains(Stream, k)) => out = raw

\* C8 witness: the mapping knows other tokens, and an unknown token of the
\* stream has arrived whole and is partly returned.
C8_Witness ==
    /\ DOMAIN mapping # {}
    /\ \E o \in Unknown :
           /\ o[1] + o[2] - 1 <= Len(raw)
           /\ Covers(o) \cap ShownLiteral # {}

\* C9: a fragment delivered after the terminal flush is rejected: it returns
\* no text and does not change the buffer.
C9_FlushedRejects ==
    [][pc = "session_flushed" => buf' = buf /\ shown' = shown]_vars

\* C10: a failed generation call never ends the loop of main: the error
\* handler of main is reached only by a loader failure, the loop ends only
\* after every row printed its final output, and every request starts its
\* call with the mapping of its own redaction and an empty buffer.
C10_FailureIsolation ==
    /\ pc = "main_catch" => failed = {} /\ rows = << >>
    /\ pc = "exit" => completed = Len(rows)
    /\ pc \in {"api_create", "mock_loop", "api_stream", "llm_return"} =>
           /\ reqIdx = completed + 1
           /\ mapping = redactText(Combined(rows[reqIdx])).mapping
    /\ (pc = "api_create" \/ (pc = "mock_loop" /\ raw = << >>)) =>
           buf = << >> /\ shown = << >>

\* C10 witness: the run is over, a request failed, and a later request
\* printed its final output.
C10_Witness ==
    /\ pc = "exit"
    /\ \E f \in failed : f < Len(rows)
    /\ completed = Len(rows)

\* C11: when the generation call of a request has failed, no step performs
\* the final one-shot restoration for that request: no final output is
\* produced from the partial raw output and the request is not counted as
\* completed.
C11_FailedStopsShort ==
    [][(pc = "llm_return" /\ reqIdx \in failed) =>
           finalOutput' = finalOutput /\ completed' = completed]_vars

\* the positions of a request in progress: between the entry of
\* processRequest and the printing of its final output
InRequest == {"api_create", "api_stream", "mock_loop", "llm_return"}
\* s begins with p
IsPrefix(p, s) == Len(p) <= Len(s) /\ SubSeq(s, 1, Len(p)) = p

\* C12: a request starts (its redaction runs) only in the loop of main, when
\* every earlier request has printed its final output, and it starts with the
\* mapping of its own row and a new, empty session; while a request is in
\* progress the mapping and the request stay the same and every fragment is
\* appended to the one session of that request; the loop moves to the next
\* row only with the final output of the current one.
C12_SequentialRequests ==
    [][/\ (pc \notin InRequest /\ pc' \in InRequest) =>
              /\ pc = "main_loop" /\ completed = reqIdx - 1
              /\ mapping' = redactText(Combined(rows[reqIdx])).mapping
              /\ buf' = << >> /\ raw' = << >> /\ shown' = << >>
       /\ (pc \in InRequest /\ pc' \in InRequest) =>
              /\ UNCHANGED <<mapping, text, reqIdx, completed>>
              /\ IsPrefix(raw, raw')
              /\ IsPrefix(shown, shown')
       /\ reqIdx' # reqIdx =>
              \/ pc = "main"
              \/ /\ pc = "llm_return"
                 /\ reqIdx' = reqIdx + 1
                 /\ completed' = reqIdx
      ]_vars

\* C12 witness: the second request streams, with text returned to the user,
\* after the first one printed its final output.
C12_Witness ==
    /\ pc \in {"api_stream", "mock_loop"}
    /\ reqIdx = 2
    /\ completed = 1
    /\ shown # << >>

\* a record of the loaded rows lacks a required field
MissingColumn == \E i \in 1..Len(rows) : \E c \in Columns : rows[i][c] = Undefined

\* C13: when requests.csv lacks a required column, redactText is called for
\* no row and no request is processed.
C13_LoaderFailureFatal ==
    MissingColumn => text = << >> /\ pc \notin InRequest /\ completed = 0

RECURSIVE Flatten(_)
\* the concatenation of a sequence of fragments
Flatten(fs) == IF fs = << >> THEN << >> ELSE Head(fs) \o Flatten(Tail(fs))
\* fragments in stream order: none is empty and they add up to raw
FragmentsOnly(fs) == (\A j \in 1..Len(fs) : fs[j] # << >>) /\ Flatten(fs) = raw

\* C14: while a request streams, the session has received non-empty fragments
\* only, in the order of generation, and they add up to raw; when the call
\* returns without an error the session has received after them the empty
\* fragment, once; the final output is computed only after that, as
\* unredactOnce of raw.
C14_FlushProtocol ==
    /\ pc \in {"api_create", "api_stream", "mock_loop"} =>
           FragmentsOnly(sent) /\ finalOutput = << >>
    /\ pc = "mock_loop" => raw \o rest = Mock
    /\ (pc = "llm_return" /\ reqIdx \notin failed) =>
           /\ sent # << >>
           /\ sent[Len(sent)] = << >>
           /\ FragmentsOnly(SubSeq(sent, 1, Len(sent) - 1))
           /\ finalOutput = << >>
    /\ (pc \in {"main_loop", "exit"} /\ completed > 0 /\ completed \notin failed) =>
           /\ sent # << >>
           /\ sent[Len(sent)] = << >>
           /\ FragmentsOnly(SubSeq(sent, 1, Len(sent) - 1))
           /\ finalOutput = unredactOnce(Flatten(sent), mapping)

\* C14 witness: a request of the service path has ended without an error
\* after two fragments and the flush, and its final output restores a value.
C14_Witness ==
    /\ pc = "main_loop"
    /\ hasKey
    /\ completed > 0 /\ completed \notin failed
    /\ Len(sent) = 3
    /\ finalOutput # raw

\* C15: what a redactText call returns, and the counters it ends with, depend
\* on its argument only: they are those of a call that starts from nothing,
\* whatever calls ran before it; so two calls on the same input return the
\* same redactedText and the same mapping.
C15_Determinism ==
    pc = "redacted" =>
        /\ [redactedText |-> modified, mapping |-> mapping] = redactText(text)
        /\ \A l \in DOMAIN counters :
               counters[l] = Cardinality(KeysOf(redactText(text).mapping, l)) + 1

\* C15 witness: a second call has returned, with placeholders of two labels,
\* after a call that had minted placeholders too.
C15_Witness ==
    /\ pc = "redacted"
    /\ completed = 1
    /\ finalOutput # << >>
    /\ finalOutput # text
    /\ \E k1, k2 \in DOMAIN mapping : k1[1] # k2[1]

\* the stream indices that the returned text and the buffer still hold
Kept == {shownSrc[j] : j \in 1..Len(shownSrc)} \cup {bufSrc[j] : j \in 1..Len(bufSrc)}

\* C16: in every call of a session, each token the call substitutes is a
\* mapped placeholder occurrence of the input stream, character for
\* character: never text that an earlier call produced by substitution, and
\* never text that is no placeholder token in the full stream; and when the
\* stream has been delivered every mapped occurrence has been substituted.
C16_SubstitutionIsFinal ==
    [][pc = "session_open" =>
        LET incoming == SubSeq(raw', Len(raw) + 1, Len(raw'))
            joined == buf \o incoming
            src == bufSrc \o [k \in 1..Len(incoming) |-> Len(raw) + k]
            ms == PlaceholderMatchesFrom(joined, 1)
        IN  /\ \A k \in 1..Len(ms) :
                   SubSeq(joined, ms[k][1], ms[k][1] + ms[k][2] - 1) \in DOMAIN mapping =>
                       \E o \in Mapped :
                           /\ o[2] = ms[k][2]
                           /\ \A j \in 0..(o[2] - 1) : src[ms[k][1] + j] = o[1] + j
            /\ pc' = "session_flushed" =>
                   \A o \in Mapped : Covers(o) \cap Kept' = {}
      ]_vars

\* C17: after every call of the session the buffer holds at most
\* MAX_PH_LEN - 1 characters; a call returns text only when the buffer, after appending and replacing, is longer
\* than that: then the last MAX_PH_LEN - 1 characters are retained and all
\* that precedes them is returned; otherwise nothing is returned and the
\* whole buffer is retained.
C17_WithheldTailBound ==
    [][/\ Len(buf') <= MAX_PH_LEN - 1
       /\ LET incoming == SubSeq(raw', Len(raw) + 1, Len(raw'))
              replaced == unredactOnce(buf \o incoming, mapping)
              out == SubSeq(shown', Len(shown) + 1, Len(shown'))
          IN  /\ shown' = shown \o out
              /\ out \o buf' = replaced
              /\ IF Len(replaced) > MAX_PH_LEN - 1
                 THEN Len(buf') = MAX_PH_LEN - 1 /\ out # << >>
                 ELSE buf' = replaced /\ out = << >>
      ]_vars

\* C17 witness: the session has returned text and holds a full tail, part of
\* which a substitution produced.
C17_Witness ==
    /\ pc = "session_open"
    /\ shown # << >>
    /\ Len(buf) = MAX_PH_LEN - 1
    /\ \E j \in 1..Len(bufSrc) : bufSrc[j] = 0
    /\ rest # << >>

\* C18: no value of the mapping contains a placeholder of the mapping: a
\* match of a later label never takes in characters of a placeholder that an
\* earlier label put into the text.
C18_PlaceholderAtomic ==
    \A k1 \in DOMAIN mapping : \A k2 \in DOMAIN mapping : ~Contains(mapping[k1], k2)

\* C19: every key of the returned mapping occurs in the returned text, and a
\* collected match that no longer occurs in the text when its turn comes
\* changes neither the mapping nor a counter.
C19_NoOrphanEntries ==
    [][/\ pc' = "redacted" => \A k \in DOMAIN mapping' : Contains(modified', k)
       /\ (pc = "redact_match" /\ matches # << >>
              /\ ~Contains(modified, Head(matches))) =>
            mapping' = mapping /\ counters' = counters
      ]_vars
====
